---- MODULE Spec2Model ----
(***************************************************************************)
(* Session lifecycle manager of the WhatsApp Baileys microservice          *)
(* (server.js): the five process-wide maps, the credential folder of each  *)
(* agent, the Baileys sockets with their connection.update handlers, and   *)
(* the HTTP / timer / sweeper tasks that run destroyClient and             *)
(* initializeClient.                                                       *)
(*                                                                         *)
(* Node runs one callback at a time, so every action is the code between   *)
(* two awaits; a promise continuation runs in the same step as the         *)
(* resolve/reject that releases it (microtasks run before the next event). *)
(*                                                                         *)
(* The transport is the external Baileys socket.  Its contract here: a     *)
(* socket created without credentials emits qr updates until it is paired  *)
(* (creds.update), a socket with credentials may emit connection 'open',   *)
(* any live socket may emit connection 'close' once, and a socket that was *)
(* logged out or ended delivers no further update.                         *)
(***************************************************************************)
EXTENDS Integers, Sequences, FiniteSets, TLC

MAX_CONCURRENT_SESSIONS == 5
QR_TIMEOUT_MS == 180000
MAX_RECONNECT_ATTEMPTS == 5

\* bounds of the model
MaxSocks == 2
MaxCalls == 2
MaxInputs == 3
MaxInit == 2
MaxDisconnect == 2
MaxSweep == 1
MaxClose == 2
MaxBatch == 2

Agents == 1..(MAX_CONCURRENT_SESSIONS + 1)
\* The accounts that callers address when the process starts empty.
Addressed == {1}
DynSocks == 1..MaxSocks
Socks == 1..(MaxSocks + MAX_CONCURRENT_SESSIONS)
Calls == 1..MaxCalls

VARIABLES
  clients,            \* agentId -> socket of the registry entry, 0 = no entry
  clientOrder,        \* insertion order of the keys of clients
  qrCodes,            \* agentId -> socket whose qr was rendered, 0 = no entry
  qrTimeouts,         \* agentId -> timer handle, 0 = no entry
  armed,              \* agentId -> set of timer handles that can still fire
  clientStates,       \* agentId -> "none" | "connecting" | "open" | "close"
  reconnectAttempts,  \* agentId -> attempts, 0 = no entry
  auth,               \* agentId -> TRUE iff credentials are stored on disk
  socks,              \* the sockets made by makeWASocket
  calls,              \* the running /init, /disconnect, timer and sweeper tasks
  resp,               \* the HTTP response sent by the last step, if any
  log,                \* the console line of the last step that names its branch
  active,             \* the agents this run sends requests and events for
  budget,             \* how many more requests and close events this run has,
                      \* and the agents it sends /init and /disconnect for
  relay               \* the messages.upsert handler of the open socket: its
                      \* event, its position and the calls it has made

vars == <<clients, clientOrder, qrCodes, qrTimeouts, armed, clientStates,
          reconnectAttempts, auth, socks, calls, resp, log, active, budget,
          relay>>

----------------------------------------------------------------------------
\* Records

NoSock == [agent |-> 0, phase |-> "unused", creds |-> FALSE, qrResolved |-> FALSE,
           wcall |-> 0, parent |-> 0, qrJob |-> FALSE, openJob |-> FALSE,
           closeJob |-> "none", loaded |-> FALSE]

NoCall == [kind |-> "free", agent |-> 0, pc |-> "", sock |-> 0, failed |-> FALSE,
           message |-> "", loaded |-> FALSE, cursor |-> 0]

NoResp == [kind |-> "none", agent |-> 0, status |-> 0, result |-> "", sock |-> 0,
           qr |-> 0, timeout |-> 0, message |-> ""]

\* the whole state as one value, so that a handler and the continuations it
\* releases can be composed as functions
G == [clients |-> clients, clientOrder |-> clientOrder, qrCodes |-> qrCodes,
      qrTimeouts |-> qrTimeouts, armed |-> armed, clientStates |-> clientStates,
      reconnectAttempts |-> reconnectAttempts, auth |-> auth, socks |-> socks,
      calls |-> calls, resp |-> NoResp, log |-> ""]

Live(ph) == ph \in {"init", "qr", "open"}

\* a socket slot can be reused once the socket is closed, none of its handlers
\* is running and nothing refers to it
Collectable(g, s) ==
  /\ s \in DynSocks
  /\ g.socks[s].phase = "dead"
  /\ g.socks[s].qrResolved
  /\ ~g.socks[s].qrJob /\ ~g.socks[s].openJob
  /\ g.socks[s].closeJob \in {"none", "done"}
  /\ \A a \in Agents : g.clients[a] # s /\ g.qrCodes[a] # s
  /\ \A c \in Calls : g.calls[c].sock # s
  /\ \A t \in Socks : g.socks[t].parent # s

Commit(g0) ==
  \E g \in {g0} :
  /\ clients' = g.clients
  /\ clientOrder' = g.clientOrder
  /\ qrCodes' = g.qrCodes
  /\ qrTimeouts' = g.qrTimeouts
  /\ armed' = g.armed
  /\ clientStates' = g.clientStates
  /\ reconnectAttempts' = g.reconnectAttempts
  /\ auth' = g.auth
  /\ socks' = [s \in Socks |-> IF Collectable(g, s) THEN NoSock
                               ELSE IF g.socks[s].phase = "dead"
                               THEN [g.socks[s] EXCEPT !.creds = FALSE]
                               ELSE g.socks[s]]
  /\ calls' = g.calls
  /\ resp' = g.resp
  /\ log' = g.log
  /\ active' = active
  /\ relay' = relay

Spend(what) ==
  /\ budget[what] > 0 /\ budget.total > 0
  /\ budget' = [budget EXCEPT ![what] = @ - 1, !.total = @ - 1]

\* no messages.upsert event has arrived
NoRelay == [type |-> "", messages |-> <<>>, i |-> 0, pc |-> "idle",
            mediaUrl |-> FALSE, downloads |-> <<>>, uploads |-> <<>>,
            stored |-> {}, posts |-> <<>>]

----------------------------------------------------------------------------
\* Map helpers

IndexOf(seq, a) == CHOOSE i \in 1..Len(seq) : seq[i] = a

Remove(seq, a) == SelectSeq(seq, LAMBDA x : x # a)

\* clients.set(agentId, data): a new key goes to the end of the iteration order
ClientsSet(g, a, s) ==
  [g EXCEPT !.clients[a] = s,
            !.clientOrder = IF g.clients[a] = 0 THEN Append(@, a) ELSE @]

\* clients.delete(agentId): a running iteration (the sweeper's for-of) that is
\* already past the entry keeps its place
ClientsDelete(g, a) ==
  IF g.clients[a] = 0 THEN g
  ELSE LET i == IndexOf(g.clientOrder, a) IN
       [g EXCEPT !.clients[a] = 0,
                 !.clientOrder = Remove(@, a),
                 !.calls = [c \in Calls |->
                   IF g.calls[c].kind = "sweep" /\ i <= g.calls[c].cursor
                   THEN [g.calls[c] EXCEPT !.cursor = g.calls[c].cursor - 1]
                   ELSE g.calls[c]]]

MaxOf(S) == IF S = {} THEN 0 ELSE CHOOSE x \in S : \A y \in S : y <= x

clearQrTimeout(g, a) ==
  IF g.qrTimeouts[a] # 0
  THEN [g EXCEPT !.armed[a] = @ \ {g.qrTimeouts[a]}, !.qrTimeouts[a] = 0]
  ELSE g

\* setTimeout(..., QR_TIMEOUT_MS) and qrTimeouts.set(agentId, timeout)
setQrTimeout(g, a) ==
  LET h == MaxOf(g.armed[a] \cup {g.qrTimeouts[a]}) + 1 IN
  [g EXCEPT !.armed[a] = @ \cup {h}, !.qrTimeouts[a] = h]

countConnectedClients(g) ==
  Cardinality({a \in Agents : g.clients[a] # 0 /\ g.clientStates[a] = "open"})

ReconnectDelay(attempts) ==
  IF attempts * 2000 < 10000 THEN attempts * 2000 ELSE 10000

FreeCall(g, c) == [g EXCEPT !.calls[c] = NoCall]

HasFreeCall == \E c \in Calls : calls[c].kind = "free"
NewCall == CHOOSE c \in Calls :
             calls[c].kind = "free" /\ \A d \in Calls : d < c => calls[d].kind # "free"

HasFreeSock == \E s \in DynSocks : socks[s].phase = "unused"
NewSock == CHOOSE s \in DynSocks :
             socks[s].phase = "unused"
             /\ \A t \in DynSocks : t < s => socks[t].phase # "unused"

----------------------------------------------------------------------------
\* destroyClient

\* the tail of destroyClient: the credential folder and the map entries
DestroyRecords(g, a) ==
  LET g1 == [g EXCEPT !.auth[a] = FALSE]
      g2 == ClientsDelete(g1, a)
  IN [g2 EXCEPT !.qrCodes[a] = 0, !.clientStates[a] = "none"]

\* the one-second sleep that ends destroyClient: the caller goes on when it
\* is over
DestroySleep(g, c) ==
  [g EXCEPT !.calls[c].pc = "sleep", !.calls[c].sock = 0]

\* destroyClient(agentId) called by task c, up to its first await: the logout
\* of the registered socket, or, with no registry entry, the final sleep
destroyClient(g, c, a) ==
  LET g1 == clearQrTimeout(g, a)
      cd == g1.clients[a]
  IN IF cd # 0
     THEN [g1 EXCEPT !.calls[c].agent = a, !.calls[c].pc = "logout",
                     !.calls[c].sock = cd]
     ELSE DestroySleep(DestroyRecords([g1 EXCEPT !.calls[c].agent = a], a), c)

----------------------------------------------------------------------------
\* initializeClient, up to the await of useMultiFileAuthState: a fresh init of
\* an agent with no registry entry removes the credential folder first
initializeClient(g, a, isReconnect) ==
  IF ~isReconnect /\ g.clients[a] = 0 THEN [g EXCEPT !.auth[a] = FALSE] ELSE g

\* /init after `await initializeClient(agent_id)`.  The catch answers with the
\* message of the error: that of the rejection ("closed" for the close
\* handler's 'Connection closed', "render" for a failed QRCode.toDataURL) or
\* "no_qr" for the route's own 'QR code not generated'.
InitContinue(g, c, s, ok) ==
  LET a == g.calls[c].agent IN
  IF ok
  THEN LET g1 == [ClientsSet(g, a, s) EXCEPT !.clientStates[a] = "connecting"]
           qr == g1.qrCodes[a]
       IN IF qr = 0 /\ g1.clientStates[a] = "open"
          THEN [FreeCall(g1, c) EXCEPT !.resp =
                 [NoResp EXCEPT !.kind = "init", !.agent = a, !.status = 200,
                                !.result = "connected", !.sock = s]]
          ELSE IF qr = 0
          THEN destroyClient([g1 EXCEPT !.calls[c].failed = TRUE,
                                        !.calls[c].message = "no_qr"], c, a)
          ELSE [FreeCall(g1, c) EXCEPT !.resp =
                 [NoResp EXCEPT !.kind = "init", !.agent = a, !.status = 200,
                                !.result = "qr", !.qr = qr,
                                !.timeout = QR_TIMEOUT_MS \div 1000]]
  ELSE destroyClient([g EXCEPT !.calls[c].failed = TRUE,
                               !.calls[c].message = IF @ = "" THEN "closed" ELSE @],
                     c, a)

\* The promise of socket s is settled (resolve or reject, first time only):
\* the awaiting /init continues, or the close handler of the parent socket
\* continues after `await initializeClient(agentId, true)` and then rejects
\* its own promise if that is still pending.
RECURSIVE Settle(_, _, _)
Settle(g, s, ok) ==
  LET a == g.socks[s].agent
      c == g.socks[s].wcall
      p == g.socks[s].parent
      g1 == [g EXCEPT !.socks[s].qrResolved = TRUE, !.socks[s].wcall = 0,
                      !.socks[s].parent = 0]
  IN IF c # 0 THEN InitContinue(g1, c, s, ok)
     ELSE IF p # 0
     THEN LET g2 == IF ok THEN ClientsSet(g1, a, s)
                    ELSE [ClientsDelete(g1, a) EXCEPT !.clientStates[a] = "none"]
              g3 == [g2 EXCEPT !.socks[p].closeJob = "done"]
          IN IF g3.socks[p].qrResolved THEN g3 ELSE Settle(g3, p, FALSE)
     ELSE g1

SettleIfPending(g, s, ok) ==
  IF g.socks[s].qrResolved THEN g ELSE Settle(g, s, ok)

----------------------------------------------------------------------------
\* Tasks: POST /init, POST /disconnect/:agent_id, the QR timeout callback and
\* the cleanup interval

\* initializeClient is entered by /init: the folder check, then the load of
\* the credentials that the socket will be made with
StartInitialize(g, c, a) ==
  LET g1 == initializeClient(g, a, FALSE) IN
  [g1 EXCEPT !.calls[c].pc = "load", !.calls[c].loaded = g1.auth[a]]

\* POST /init that admits a new account while the open sessions are at the
\* limit (> for >=)
PostInitAtLimit(g, c, a) ==
  LET existingClient == g.clients[a]
      g0 == [g EXCEPT !.calls[c] = [NoCall EXCEPT !.kind = "init", !.agent = a]]
  IN IF existingClient # 0 /\ g.clientStates[a] = "open"
     THEN [g EXCEPT !.resp =
            [NoResp EXCEPT !.kind = "init", !.agent = a, !.status = 200,
                           !.result = "already_connected", !.sock = existingClient]]
     ELSE IF countConnectedClients(g) > MAX_CONCURRENT_SESSIONS /\ existingClient = 0
     THEN [g EXCEPT !.resp =
            [NoResp EXCEPT !.kind = "init", !.agent = a, !.status = 503,
                           !.result = "capacity"]]
     ELSE IF existingClient # 0 THEN destroyClient(g0, c, a)
     ELSE StartInitialize(g0, c, a)

\* POST /init without the early return for an open session
PostInitNoOpenCheck(g, c, a) ==
  LET existingClient == g.clients[a]
      g0 == [g EXCEPT !.calls[c] = [NoCall EXCEPT !.kind = "init", !.agent = a]]
  IN IF countConnectedClients(g) >= MAX_CONCURRENT_SESSIONS /\ existingClient = 0
     THEN [g EXCEPT !.resp =
            [NoResp EXCEPT !.kind = "init", !.agent = a, !.status = 503,
                           !.result = "capacity"]]
     ELSE IF existingClient # 0 THEN destroyClient(g0, c, a)
     ELSE StartInitialize(g0, c, a)

\* POST /init up to its first await
PostInit(g, c, a) ==
  LET existingClient == g.clients[a]
      g0 == [g EXCEPT !.calls[c] = [NoCall EXCEPT !.kind = "init", !.agent = a]]
  IN IF existingClient # 0 /\ g.clientStates[a] = "open"
     THEN [g EXCEPT !.resp =
            [NoResp EXCEPT !.kind = "init", !.agent = a, !.status = 200,
                           !.result = "already_connected", !.sock = existingClient]]
     ELSE IF countConnectedClients(g) >= MAX_CONCURRENT_SESSIONS /\ existingClient = 0
     THEN [g EXCEPT !.resp =
            [NoResp EXCEPT !.kind = "init", !.agent = a, !.status = 503,
                           !.result = "capacity"]]
     ELSE IF existingClient # 0 THEN destroyClient(g0, c, a)
     ELSE StartInitialize(g0, c, a)

InitRequest(a) ==
  /\ a \in budget.initFor
  /\ HasFreeCall
  /\ Spend("init")
  /\ Commit(PostInit(G, NewCall, a))

\* makeWASocket inside initializeClient called from /init
InitCreate(c) ==
  /\ UNCHANGED budget
  /\ calls[c].kind = "init" /\ calls[c].pc = "load"
  /\ HasFreeSock
  /\ LET s == NewSock IN
     Commit([G EXCEPT
       !.socks[s] = [NoSock EXCEPT !.agent = calls[c].agent, !.phase = "init",
                                   !.creds = calls[c].loaded, !.wcall = c],
       !.calls[c].pc = "wait", !.calls[c].sock = s])

\* POST /disconnect/:agent_id up to the first await of destroyClient
PostDisconnect(g, c, a) ==
  destroyClient([g EXCEPT !.calls[c] = [NoCall EXCEPT !.kind = "disconnect", !.agent = a]],
                c, a)

DisconnectRequest(a) ==
  /\ a \in budget.discFor
  /\ HasFreeCall
  /\ Spend("disconnect")
  /\ Commit(PostDisconnect(G, NewCall, a))

\* the setTimeout callback armed by the qr handler
QrTimeoutFired(g, c, a, h) ==
  destroyClient([g EXCEPT !.armed[a] = @ \ {h},
                          !.calls[c] = [NoCall EXCEPT !.kind = "timer", !.agent = a]],
                c, a)

TimerFire(a) ==
  /\ UNCHANGED budget
  /\ HasFreeCall
  /\ \E h \in armed[a] : Commit(QrTimeoutFired(G, NewCall, a, h))

\* destroyClient without the try/catch around the logout: the error of a
\* socket that is already closed ends the caller, /disconnect answers 500
LogoutReturnedThrows(g, c) ==
  LET a == g.calls[c].agent
      s == g.calls[c].sock
      g1 == [g EXCEPT !.socks[s].phase = "dead"]
  IN IF Live(g.socks[s].phase) THEN DestroySleep(DestroyRecords(g1, a), c)
     ELSE [g EXCEPT !.calls[c] = NoCall,
                    !.resp = [NoResp EXCEPT !.kind = g.calls[c].kind, !.agent = a,
                                            !.status = 500, !.result = "error"]]

\* destroyClient after `await clientData.sock.logout()`.  logout() throws on a
\* socket that is already closed and may throw on a live one; the catch calls
\* sock.end(), so the socket is ended either way and the rest of destroyClient
\* is the same for both outcomes.
LogoutReturned(g, c) ==
  LET a == g.calls[c].agent
      s == g.calls[c].sock
      g1 == [g EXCEPT !.socks[s].phase = IF Live(@) THEN "dead" ELSE @]
  IN DestroySleep(DestroyRecords(g1, a), c)

LogoutDone(c) ==
  /\ UNCHANGED budget
  /\ calls[c].pc = "logout"
  /\ Commit(LogoutReturned(G, c))

\* the cleanup condition that also reaps the sessions that are connecting
StaleOrConnecting(g, a) == g.clientStates[a] # "open"

Stale(g, a) == g.clientStates[a] \notin {"open", "connecting"}

MinOf(S) == CHOOSE x \in S : \A y \in S : x <= y

\* the for-of loop of the cleanup interval, from the iterator's position to the
\* next entry it destroys or to the end of the map
SweepLoop(g, c) ==
  LET k == g.calls[c].cursor
      cand == {i \in (k + 1)..Len(g.clientOrder) : Stale(g, g.clientOrder[i])}
  IN IF cand = {} THEN FreeCall(g, c)
     ELSE destroyClient([g EXCEPT !.calls[c].cursor = MinOf(cand)], c,
                        g.clientOrder[MinOf(cand)])

SweepStart ==
  /\ HasFreeCall
  /\ Spend("sweep")
  /\ \A c \in Calls : calls[c].kind # "sweep"
  /\ Commit(SweepLoop([G EXCEPT !.calls[NewCall] = [NoCall EXCEPT !.kind = "sweep"]],
                      NewCall))

\* destroyClient returns after its one-second sleep and the caller goes on:
\* the timer callback ends, /disconnect answers, the catch of /init rethrows
\* and the route answers 500, the sweeper takes the next entry, and /init
\* enters initializeClient
AfterDestroy(g, c) ==
  LET a == g.calls[c].agent
      k == g.calls[c].kind
  IN IF k = "timer" THEN [g EXCEPT !.calls[c] = NoCall, !.log = "timeout_cleanup"]
     ELSE IF k = "disconnect"
     THEN [g EXCEPT !.calls[c] = NoCall,
                    !.resp = [NoResp EXCEPT !.kind = "disconnect", !.agent = a,
                                            !.status = 200, !.result = "ok"]]
     ELSE IF k = "init" /\ g.calls[c].failed
     THEN [g EXCEPT !.calls[c] = NoCall,
                    !.resp = [NoResp EXCEPT !.kind = "init", !.agent = a,
                                            !.status = 500, !.result = "error",
                                            !.message = g.calls[c].message]]
     ELSE IF k = "sweep" THEN SweepLoop(g, c)
     ELSE StartInitialize(g, c, a)

SleepDone(c) ==
  /\ UNCHANGED budget
  /\ calls[c].pc = "sleep"
  /\ Commit(AfterDestroy(G, c))

----------------------------------------------------------------------------
\* The connection.update handler of socket s

Handles(s) == socks[s].agent \in active

\* a qr update arrives; the handler awaits QRCode.toDataURL
SockQr(s) ==
  /\ UNCHANGED budget
  /\ Handles(s)
  /\ socks[s].phase \in {"init", "qr"} /\ ~socks[s].creds /\ ~socks[s].qrJob
  /\ Commit([G EXCEPT !.socks[s].phase = "qr", !.socks[s].qrJob = TRUE])

\* a qr handler that stores the code and arms the timer for the first code only
OnQrFirstOnly(g, s, rendered) ==
  LET a == g.socks[s].agent
      g0 == [g EXCEPT !.socks[s].qrJob = FALSE]
  IN IF rendered
     THEN IF g0.socks[s].qrResolved THEN g0
          ELSE SettleIfPending(
            setQrTimeout(clearQrTimeout([g0 EXCEPT !.qrCodes[a] = s], a), a), s, TRUE)
     ELSE LET c == g0.socks[s].wcall IN
          SettleIfPending(
            IF c # 0 THEN [g0 EXCEPT !.calls[c].message = "render"] ELSE g0, s, FALSE)

\* after `await QRCode.toDataURL(qr)`
OnQr(g, s, rendered) ==
  LET a == g.socks[s].agent
      g0 == [g EXCEPT !.socks[s].qrJob = FALSE]
  IN IF rendered
     THEN SettleIfPending(
            setQrTimeout(clearQrTimeout([g0 EXCEPT !.qrCodes[a] = s], a), a), s, TRUE)
     ELSE LET c == g0.socks[s].wcall IN
          SettleIfPending(
            IF c # 0 THEN [g0 EXCEPT !.calls[c].message = "render"] ELSE g0, s, FALSE)

QrRendered(s) ==
  /\ UNCHANGED budget
  /\ socks[s].qrJob
  /\ Commit(OnQr(G, s, TRUE))

QrRenderFailed(s) ==
  /\ UNCHANGED budget
  /\ socks[s].qrJob
  /\ Commit(OnQr(G, s, FALSE))

\* creds.update after the code was scanned: saveCreds writes the folder
SockPaired(s) ==
  /\ UNCHANGED budget
  /\ Handles(s)
  /\ socks[s].phase = "qr" /\ ~socks[s].creds
  /\ Commit([G EXCEPT !.socks[s].creds = TRUE, !.auth[socks[s].agent] = TRUE])

\* connection 'open', up to the await of the notification fetch
OnOpen(g, s) ==
  LET a == g.socks[s].agent
      g1 == clearQrTimeout(g, a)
  IN [g1 EXCEPT !.clientStates[a] = "open", !.reconnectAttempts[a] = 0,
                !.socks[s].phase = "open", !.socks[s].openJob = TRUE]

SockOpen(s) ==
  /\ UNCHANGED budget
  /\ Handles(s)
  /\ socks[s].phase \in {"init", "qr"} /\ socks[s].creds
  /\ Commit(OnOpen(G, s))

\* connection 'open' after the notification fetch returned or threw
OnOpenNotified(g, s) ==
  LET a == g.socks[s].agent IN
  SettleIfPending([g EXCEPT !.socks[s].openJob = FALSE, !.qrCodes[a] = 0], s, TRUE)

OpenNotified(s) ==
  /\ UNCHANGED budget
  /\ socks[s].openJob
  /\ Commit(OnOpenNotified(G, s))

\* connection 'close' that allows one reconnect attempt too many
OnCloseOneMore(g, s, loggedOut) ==
  LET a == g.socks[s].agent
      g0 == [g EXCEPT !.socks[s].phase = "dead", !.clientStates[a] = "close"]
      attempts == g.reconnectAttempts[a] + 1
  IN IF ~loggedOut
     THEN IF attempts <= MAX_RECONNECT_ATTEMPTS + 1
          THEN [g0 EXCEPT !.reconnectAttempts[a] = attempts,
                          !.socks[s].closeJob = "delay"]
          ELSE SettleIfPending(
                 [ClientsDelete(g0, a) EXCEPT !.reconnectAttempts[a] = 0,
                                              !.qrCodes[a] = 0,
                                              !.clientStates[a] = "none",
                                              !.log = "max_reconnect"],
                 s, FALSE)
     ELSE SettleIfPending(
            [ClientsDelete(clearQrTimeout(g0, a), a) EXCEPT
               !.qrCodes[a] = 0, !.clientStates[a] = "none",
               !.reconnectAttempts[a] = 0, !.auth[a] = FALSE,
               !.log = "logged_out"],
            s, FALSE)

\* connection 'close' whose logged-out branch leaves the credential folder
OnCloseKeepAuth(g, s, loggedOut) ==
  LET a == g.socks[s].agent
      g0 == [g EXCEPT !.socks[s].phase = "dead", !.clientStates[a] = "close"]
      attempts == g.reconnectAttempts[a] + 1
  IN IF ~loggedOut
     THEN IF attempts <= MAX_RECONNECT_ATTEMPTS
          THEN [g0 EXCEPT !.reconnectAttempts[a] = attempts,
                          !.socks[s].closeJob = "delay"]
          ELSE SettleIfPending(
                 [ClientsDelete(g0, a) EXCEPT !.reconnectAttempts[a] = 0,
                                              !.qrCodes[a] = 0,
                                              !.clientStates[a] = "none",
                                              !.log = "max_reconnect"],
                 s, FALSE)
     ELSE SettleIfPending(
            [ClientsDelete(clearQrTimeout(g0, a), a) EXCEPT
               !.qrCodes[a] = 0, !.clientStates[a] = "none",
               !.reconnectAttempts[a] = 0,
               !.log = "logged_out"],
            s, FALSE)

\* connection 'close', up to the reconnect delay or to the end of the handler
OnClose(g, s, loggedOut) ==
  LET a == g.socks[s].agent
      g0 == [g EXCEPT !.socks[s].phase = "dead", !.clientStates[a] = "close"]
      attempts == g.reconnectAttempts[a] + 1
  IN IF ~loggedOut
     THEN IF attempts <= MAX_RECONNECT_ATTEMPTS
          THEN [g0 EXCEPT !.reconnectAttempts[a] = attempts,
                          !.socks[s].closeJob = "delay"]
          ELSE SettleIfPending(
                 [ClientsDelete(g0, a) EXCEPT !.reconnectAttempts[a] = 0,
                                              !.qrCodes[a] = 0,
                                              !.clientStates[a] = "none",
                                              !.log = "max_reconnect"],
                 s, FALSE)
     ELSE SettleIfPending(
            [ClientsDelete(clearQrTimeout(g0, a), a) EXCEPT
               !.qrCodes[a] = 0, !.clientStates[a] = "none",
               !.reconnectAttempts[a] = 0, !.auth[a] = FALSE,
               !.log = "logged_out"],
            s, FALSE)

SockClose(s) ==
  /\ Handles(s)
  /\ Live(socks[s].phase)
  /\ Spend("close")
  /\ \E loggedOut \in BOOLEAN : Commit(OnClose(G, s, loggedOut))

\* the reconnect delay is over: initializeClient(agentId, true) keeps the
\* credential folder and awaits useMultiFileAuthState, which reads the
\* credentials that the new socket will be made with
OnDelayEnd(g, s) ==
  LET a == g.socks[s].agent
      g1 == initializeClient(g, a, TRUE)
  IN [g1 EXCEPT !.socks[s].closeJob = "load", !.socks[s].loaded = g1.auth[a]]

ReconnectLoad(s) ==
  /\ UNCHANGED budget
  /\ socks[s].closeJob = "delay"
  /\ Commit(OnDelayEnd(G, s))

\* fetchLatestBaileysVersion has returned: makeWASocket makes the new socket
\* n with the credentials that were read, and the close handler of s awaits
\* its promise
OnReconnect(g, s, n) ==
  LET a == g.socks[s].agent
  IN [g EXCEPT !.socks[n] = [NoSock EXCEPT !.agent = a, !.phase = "init",
                                           !.creds = g.socks[s].loaded,
                                           !.parent = s],
               !.socks[s].closeJob = "wait", !.socks[s].loaded = FALSE]

ReconnectCreate(s) ==
  /\ UNCHANGED budget
  /\ socks[s].closeJob = "load"
  /\ HasFreeSock
  /\ Commit(OnReconnect(G, s, NewSock))

----------------------------------------------------------------------------
\* The messages.upsert handler of a socket

\* what msg.message holds ("none": a protocol message without content)
Contents == {"none", "image", "video", "audio", "ptt", "document", "sticker",
             "reply", "text"}

\* msg.key.remoteJid ("none": absent)
Jids == {"none", "status@broadcast", "user@s.whatsapp.net"}

Messages == [fromMe : BOOLEAN, remoteJid : Jids, content : Contents]

Batches == UNION {[1..n -> Messages] : n \in 1..MaxBatch}

detectMessageType(content) ==
  CASE content = "none" -> [type |-> "text", baileysType |-> "null"]
    [] content \in {"image", "video", "document"} ->
         [type |-> "media", baileysType |-> content]
    [] content = "ptt" -> [type |-> "voice", baileysType |-> "ptt"]
    [] content = "audio" -> [type |-> "media", baileysType |-> "audio"]
    [] content = "sticker" -> [type |-> "sticker", baileysType |-> "sticker"]
    [] content = "reply" -> [type |-> "reply", baileysType |-> "text"]
    [] OTHER -> [type |-> "text", baileysType |-> "text"]

\* messageType === 'media' || messageType === 'voice' || messageType === 'sticker'
MediaClass(content) ==
  detectMessageType(content).type \in {"media", "voice", "sticker"}

\* the metadata is completed and fetch(WEBHOOK_URL) is called with the record
\* of message i; the handler awaits the response
PostWebhook(r, i) ==
  LET m == r.messages[i]
      d == detectMessageType(m.content)
      media == MediaClass(m.content)
  IN [r EXCEPT !.pc = "webhook",
               !.posts = Append(@,
                 [index |-> i, from_me |-> m.fromMe, message_type |-> d.type,
                  has_media |-> media,
                  media_type |-> IF media THEN d.baileysType ELSE "absent",
                  media_url |-> media /\ r.mediaUrl])]

\* the loop over the messages of the event, from the top of iteration i to
\* the first await: a message without chat, of the status broadcast or
\* without content is passed over; an inbound media message is downloaded
RECURSIVE ProcessFrom(_, _)
ProcessFrom(r, i) ==
  IF i > Len(r.messages) THEN [r EXCEPT !.pc = "done", !.i = 0]
  ELSE LET m == r.messages[i]
           r1 == [r EXCEPT !.i = i, !.mediaUrl = FALSE]
       IN IF \/ m.remoteJid \in {"none", "status@broadcast"}
             \/ m.content = "none"
          THEN ProcessFrom(r, i + 1)
          ELSE IF MediaClass(m.content) /\ ~m.fromMe
          THEN [r1 EXCEPT !.pc = "download", !.downloads = Append(@, i)]
          ELSE PostWebhook(r1, i)

\* every step of the handler leaves the session maps alone
SessionUnchanged ==
  UNCHANGED <<clients, clientOrder, qrCodes, qrTimeouts, armed, clientStates,
              reconnectAttempts, auth, socks, calls, resp, log, active, budget>>

\* the event arrives; only 'notify' events are processed
MessagesUpsert(type, messages) ==
  /\ relay.pc = "idle"
  /\ \E s \in Socks : Live(socks[s].phase)
  /\ relay' = LET r == [relay EXCEPT !.type = type, !.messages = messages]
              IN IF type # "notify" THEN [r EXCEPT !.pc = "done"]
                 ELSE ProcessFrom(r, 1)
  /\ SessionUnchanged

\* `await downloadMediaMessage(...)` returned a buffer, returned nothing or
\* threw; with a buffer the upload to the storage is started
OnDownload(r, out) ==
  IF out = "buffer"
  THEN [r EXCEPT !.pc = "upload", !.uploads = Append(@, r.i)]
  ELSE PostWebhook(r, r.i)

DownloadReturned(out) ==
  /\ relay.pc = "download"
  /\ relay' = OnDownload(relay, out)
  /\ SessionUnchanged

\* a handler that gives the message up when the storage does not take the asset
OnUploadOrDrop(r, out) ==
  IF out = "ok"
  THEN PostWebhook([r EXCEPT !.mediaUrl = TRUE], r.i)
  ELSE ProcessFrom(r, r.i + 1)

\* `await fetch(storageUrl, ...)` answered ok, answered with an error status
\* (its text is read and logged) or threw
OnUpload(r, out) ==
  IF out = "ok"
  THEN PostWebhook([r EXCEPT !.mediaUrl = TRUE], r.i)
  ELSE PostWebhook(r, r.i)

\* the storage holds the asset of a message once it has answered ok
UploadReturned(out) ==
  /\ relay.pc = "upload"
  /\ relay' = OnUpload([relay EXCEPT !.stored = IF out = "ok" THEN @ \cup {relay.i}
                                                 ELSE @], out)
  /\ SessionUnchanged

\* `await fetch(WEBHOOK_URL, ...)` answered or threw: the outcome is logged
\* and the loop goes on with the next message
WebhookReturned ==
  /\ relay.pc = "webhook"
  /\ relay' = ProcessFrom(relay, relay.i + 1)
  /\ SessionUnchanged

NextRelay ==
  \/ \E type \in {"notify", "append"} : \E messages \in Batches :
       MessagesUpsert(type, messages)
  \/ \E out \in {"buffer", "null", "throw"} : DownloadReturned(out)
  \/ \E out \in {"ok", "not_ok", "throw"} : UploadReturned(out)
  \/ WebhookReturned

----------------------------------------------------------------------------
NoAgentState ==
  /\ clients = [a \in Agents |-> 0]
  /\ clientOrder = <<>>
  /\ qrCodes = [a \in Agents |-> 0]
  /\ qrTimeouts = [a \in Agents |-> 0]
  /\ armed = [a \in Agents |-> {}]
  /\ clientStates = [a \in Agents |-> "none"]
  /\ reconnectAttempts = [a \in Agents |-> 0]
  /\ socks = [s \in Socks |-> NoSock]
  /\ calls = [c \in Calls |-> NoCall]
  /\ resp = NoResp
  /\ log = ""
  /\ relay = NoRelay

\* the process has just started; the credential folder of the agent may have
\* been left by an earlier run
Init ==
  /\ NoAgentState
  /\ active = Addressed
  /\ budget = [total |-> MaxInputs, init |-> MaxInit, disconnect |-> MaxDisconnect,
               sweep |-> MaxSweep, close |-> MaxClose, initFor |-> Addressed,
               discFor |-> Addressed]
  /\ auth \in {f \in [Agents -> BOOLEAN] : \A a \in Agents \ {1} : ~f[a]}

Next ==
  \/ \E a \in Agents : InitRequest(a)
  \/ \E a \in Agents : DisconnectRequest(a)
  \/ \E a \in Agents : TimerFire(a)
  \/ SweepStart
  \/ \E c \in Calls : InitCreate(c)
  \/ \E c \in Calls : LogoutDone(c)
  \/ \E c \in Calls : SleepDone(c)
  \/ \E s \in Socks : SockQr(s)
  \/ \E s \in Socks : QrRendered(s)
  \/ \E s \in Socks : QrRenderFailed(s)
  \/ \E s \in Socks : SockPaired(s)
  \/ \E s \in Socks : SockOpen(s)
  \/ \E s \in Socks : OpenNotified(s)
  \/ \E s \in Socks : SockClose(s)
  \/ \E s \in Socks : ReconnectLoad(s)
  \/ \E s \in Socks : ReconnectCreate(s)

Spec == Init /\ [][Next]_vars

\* An agent whose session is open: what a scan, the 515 restart and the
\* reconnect with the saved credentials leave behind.
OpenSock(a) == [NoSock EXCEPT !.agent = a, !.phase = "open", !.creds = TRUE,
                              !.qrResolved = TRUE]

\* MAX_CONCURRENT_SESSIONS agents are connected; the last of them and one
\* agent without a session receive the requests and events of the run.
InitCap ==
  LET Connected == 1..MAX_CONCURRENT_SESSIONS IN
  /\ clients = [a \in Agents |-> IF a \in Connected THEN MaxSocks + a ELSE 0]
  /\ clientOrder = [i \in Connected |-> i]
  /\ qrCodes = [a \in Agents |-> 0]
  /\ qrTimeouts = [a \in Agents |-> 0]
  /\ armed = [a \in Agents |-> {}]
  /\ clientStates = [a \in Agents |-> IF a \in Connected THEN "open" ELSE "none"]
  /\ reconnectAttempts = [a \in Agents |-> 0]
  /\ auth = [a \in Agents |-> a \in Connected]
  /\ socks = [s \in Socks |-> IF s > MaxSocks THEN OpenSock(s - MaxSocks) ELSE NoSock]
  /\ calls = [c \in Calls |-> NoCall]
  /\ resp = NoResp
  /\ log = ""
  /\ relay = NoRelay
  /\ active = {MAX_CONCURRENT_SESSIONS, MAX_CONCURRENT_SESSIONS + 1}
  /\ budget = [total |-> MaxInputs, init |-> MaxInit, disconnect |-> 1,
               sweep |-> 1, close |-> 1, initFor |-> {MAX_CONCURRENT_SESSIONS + 1},
               discFor |-> {MAX_CONCURRENT_SESSIONS, MAX_CONCURRENT_SESSIONS + 1}]

SpecCap == InitCap /\ [][Next]_vars

TypeOK ==
  /\ \A a \in Agents : clients[a] \in 0..(MaxSocks + MAX_CONCURRENT_SESSIONS)
  /\ \A a \in Agents : reconnectAttempts[a] \in 0..MAX_RECONNECT_ATTEMPTS
  /\ \A a \in Agents : clientStates[a] \in {"none", "connecting", "open", "close"}
  /\ \A a \in Agents : (clients[a] # 0) = (\E i \in 1..Len(clientOrder) : clientOrder[i] = a)

\* An agent that is pairing after recoverable closes in a row: /init showed a
\* code, and every socket since then showed a code and closed before it was
\* scanned.  The reconnect path never sets the state back to 'connecting'.
\* Either the counter is one below the maximum and the run has one input
\* less, or the counter is at the maximum, so that the next recoverable close
\* takes the max-attempts branch, and the run has a /disconnect, a cleanup
\* run and one close.
InitReconnect ==
  /\ clients = [a \in Agents |-> IF a = 1 THEN 1 ELSE 0]
  /\ clientOrder = <<1>>
  /\ qrCodes = [a \in Agents |-> IF a = 1 THEN 1 ELSE 0]
  /\ qrTimeouts = [a \in Agents |-> IF a = 1 THEN 1 ELSE 0]
  /\ armed = [a \in Agents |-> IF a = 1 THEN {1} ELSE {}]
  /\ clientStates = [a \in Agents |-> IF a = 1 THEN "close" ELSE "none"]
  /\ auth = [a \in Agents |-> FALSE]
  /\ socks = [s \in Socks |-> IF s = 1
                THEN [NoSock EXCEPT !.agent = 1, !.phase = "qr", !.qrResolved = TRUE]
                ELSE NoSock]
  /\ calls = [c \in Calls |-> NoCall]
  /\ resp = NoResp
  /\ log = ""
  /\ relay = NoRelay
  /\ active = Addressed
  /\ \/ /\ reconnectAttempts =
             [a \in Agents |-> IF a = 1 THEN MAX_RECONNECT_ATTEMPTS - 1 ELSE 0]
        /\ budget = [total |-> MaxInputs - 1, init |-> 1, disconnect |-> 1,
                     sweep |-> 1, close |-> MaxClose, initFor |-> Addressed,
                     discFor |-> Addressed]
     \/ /\ reconnectAttempts =
             [a \in Agents |-> IF a = 1 THEN MAX_RECONNECT_ATTEMPTS ELSE 0]
        /\ budget = [total |-> MaxInputs, init |-> 0, disconnect |-> 1,
                     sweep |-> 1, close |-> 1, initFor |-> Addressed,
                     discFor |-> Addressed]

SpecReconnect == InitReconnect /\ [][Next]_vars

\* The process has just started and the agent has no stored credentials.
InitPair ==
  /\ NoAgentState
  /\ active = Addressed
  /\ auth = [a \in Agents |-> FALSE]
  /\ budget = [total |-> MaxInputs, init |-> 1, disconnect |-> 1, sweep |-> 1,
               close |-> 1, initFor |-> Addressed, discFor |-> Addressed]

\* Timers that are due fire, and awaited calls return: the logout, the
\* sleep, the load of the credentials, the rendering of the code, the
\* notification fetch and the reconnect delay.  The transport and the callers
\* owe nothing.
Fairness ==
  /\ WF_vars(\E a \in Agents : TimerFire(a))
  /\ WF_vars(\E c \in Calls : LogoutDone(c))
  /\ WF_vars(\E c \in Calls : SleepDone(c))
  /\ WF_vars(\E c \in Calls : InitCreate(c))
  /\ WF_vars(\E s \in Socks : QrRendered(s) \/ QrRenderFailed(s))
  /\ WF_vars(\E s \in Socks : OpenNotified(s))
  /\ WF_vars(\E s \in Socks : ReconnectLoad(s))
  /\ WF_vars(\E s \in Socks : ReconnectCreate(s))

SpecPair == InitPair /\ [][Next]_vars /\ Fairness

\* Agent 1 is connected and no caller addresses it: only its transport, its
\* timers and the cleanup interval act on it.  The callers' requests go to
\* agent 2, which has no session.
InitOpen ==
  /\ clients = [a \in Agents |-> IF a = 1 THEN MaxSocks + 1 ELSE 0]
  /\ clientOrder = <<1>>
  /\ qrCodes = [a \in Agents |-> 0]
  /\ qrTimeouts = [a \in Agents |-> 0]
  /\ armed = [a \in Agents |-> {}]
  /\ clientStates = [a \in Agents |-> IF a = 1 THEN "open" ELSE "none"]
  /\ reconnectAttempts = [a \in Agents |-> 0]
  /\ auth = [a \in Agents |-> a = 1]
  /\ socks = [s \in Socks |-> IF s = MaxSocks + 1 THEN OpenSock(1) ELSE NoSock]
  /\ calls = [c \in Calls |-> NoCall]
  /\ resp = NoResp
  /\ log = ""
  /\ relay = NoRelay
  /\ active = {1, 2}
  /\ budget = [total |-> MaxInputs, init |-> 1, disconnect |-> 1, sweep |-> MaxSweep,
               close |-> MaxClose, initFor |-> {2}, discFor |-> {2}]

SpecOpen == InitOpen /\ [][Next]_vars

\* Agent 1 is connected and its socket delivers one messages.upsert event
SpecRelay == InitOpen /\ [][NextRelay]_vars

\* The same, with the timers and the awaited calls owed their completion
SpecRetry == InitOpen /\ [][Next]_vars /\ Fairness

----------------------------------------------------------------------------
\* Properties

Maps == <<clients, clientOrder, qrCodes, qrTimeouts, armed, clientStates,
          reconnectAttempts, auth>>

LiveSocks(a) == {s \in Socks : socks[s].agent = a /\ Live(socks[s].phase)}

OpenSessions == {a \in Agents : clients[a] # 0 /\ clientStates[a] = "open"}

NoRecords(a) ==
  /\ clients[a] = 0 /\ clientStates[a] = "none" /\ qrCodes[a] = 0
  /\ qrTimeouts[a] = 0 /\ armed[a] = {} /\ reconnectAttempts[a] = 0

\* C1: every account is owned by at most one session at a time, also when
\* several init requests for the account are in flight: at most one live
\* socket exists for it.
C1_OneSessionPerAccount == \A a \in Agents : Cardinality(LiveSocks(a)) <= 1

\* C2: an init for an account without a registry entry is rejected with the
\* capacity error, changing no map and creating no socket and no task, exactly
\* when MAX_CONCURRENT_SESSIONS sessions are open; with fewer open sessions it
\* is admitted (it enters initializeClient).
C2_Admission ==
  [][\A a \in Agents :
       (InitRequest(a) /\ clients[a] = 0) =>
         IF Cardinality(OpenSessions) >= MAX_CONCURRENT_SESSIONS
         THEN /\ resp'.kind = "init" /\ resp'.agent = a
              /\ resp'.status = 503 /\ resp'.result = "capacity"
              /\ UNCHANGED Maps /\ UNCHANGED <<socks, calls>>
         ELSE /\ resp' = NoResp
              /\ \E c \in Calls : /\ calls[c].kind = "free"
                                   /\ calls'[c].kind = "init"
                                   /\ calls'[c].agent = a
                                   /\ calls'[c].pc = "load"]_vars

C2_Rejected ==
  /\ resp.kind = "init" /\ resp.result = "capacity"
  /\ clients[resp.agent] = 0
  /\ Cardinality(OpenSessions) = MAX_CONCURRENT_SESSIONS

\* no request, timer callback or cleanup run is working on account a and no
\* socket of the account is live
Quiet(a) ==
  /\ LiveSocks(a) = {}
  /\ \A c \in Calls : calls[c].kind = "free" \/ calls[c].agent # a

\* C3: when the teardown of a /disconnect has done its deletions and enters
\* its closing sleep, after which the route answers, the account has no record
\* (registry entry, state, artifact, timer, reconnect counter) and no stored
\* credentials; a logout that fails makes no difference.
C3_DisconnectClears ==
  [][\A c \in Calls : \A a \in Agents :
       (/\ calls'[c].kind = "disconnect" /\ calls'[c].agent = a
        /\ calls'[c].pc = "sleep" /\ calls[c].pc # "sleep")
       => NoRecords(a)' /\ ~auth'[a]]_vars

\* C4: the reconnect counter never exceeds MAX_RECONNECT_ATTEMPTS, and a
\* recoverable close that would take it past the maximum removes the session
\* records (registry entry, state, artifact, counter) and schedules no
\* reconnect.
C4_ReconnectBound ==
  /\ [](\A a \in Agents : reconnectAttempts[a] <= MAX_RECONNECT_ATTEMPTS)
  /\ [][\A s \in Socks :
          (/\ Handles(s) /\ Live(socks[s].phase)
           /\ reconnectAttempts[socks[s].agent] = MAX_RECONNECT_ATTEMPTS
           /\ Spend("close") /\ Commit(OnClose(G, s, FALSE)))
          => LET a == socks[s].agent IN
             /\ clients'[a] = 0 /\ clientStates'[a] = "none"
             /\ qrCodes'[a] = 0 /\ reconnectAttempts'[a] = 0
             /\ socks'[s].closeJob \notin {"delay", "load", "wait"}]_vars

C4_Exceeded ==
  /\ log = "max_reconnect"
  /\ clients[1] = 0 /\ clientStates[1] = "none" /\ reconnectAttempts[1] = 0
  /\ \A s \in Socks : socks[s].closeJob \notin {"delay", "load", "wait"}

\* C5: an account has a pairing artifact only while it is pairing (registered,
\* state 'connecting'), and an account that is pairing and has not been opened
\* has an artifact.
C5_ArtifactIffPairing ==
  \A a \in Agents :
    /\ qrCodes[a] # 0 => clients[a] # 0 /\ clientStates[a] = "connecting"
    /\ (/\ clients[a] # 0 /\ clientStates[a] = "connecting"
        /\ socks[clients[a]].phase = "qr" /\ ~socks[clients[a]].creds)
       => qrCodes[a] # 0

\* C6: /init for an account whose session is open answers with the identity
\* of the registered socket and changes nothing.
C6_InitOnOpen ==
  [][\A a \in Agents :
       (InitRequest(a) /\ clients[a] # 0 /\ clientStates[a] = "open") =>
         /\ resp'.kind = "init" /\ resp'.agent = a /\ resp'.status = 200
         /\ resp'.result = "already_connected" /\ resp'.sock = clients[a]
         /\ UNCHANGED Maps /\ UNCHANGED <<socks, calls>>]_vars

C6_AlreadyConnected ==
  /\ resp.kind = "init" /\ resp.result = "already_connected"
  /\ clients[resp.agent] = resp.sock /\ clientStates[resp.agent] = "open"
  /\ socks[resp.sock].phase = "open"

\* C7: a /disconnect that directly follows a completed /disconnect of the same
\* account, with no other request and no live socket of the account in
\* between, changes nothing (no map, no stored credentials, no socket), the
\* account is then destroyed (it has no record and no stored credentials),
\* and the call answers success when the sleep of its teardown is over.
C7_DisconnectTwice ==
  [][\A a \in Agents :
       /\ (resp.kind = "disconnect" /\ resp.agent = a /\ Quiet(a) /\ DisconnectRequest(a)) =>
            /\ UNCHANGED Maps /\ UNCHANGED socks
            /\ NoRecords(a)' /\ ~auth'[a]
            /\ \E c \in Calls : /\ calls[c].kind = "free"
                                 /\ calls'[c].kind = "disconnect"
                                 /\ calls'[c].agent = a /\ calls'[c].pc = "sleep"
       /\ \A c \in Calls :
            (calls[c].kind = "disconnect" /\ calls[c].agent = a /\ SleepDone(c)) =>
              /\ resp'.kind = "disconnect" /\ resp'.agent = a
              /\ resp'.result = "ok"]_vars

\* C8: /disconnect for an account without a registry entry changes no map
\* and no stored credentials, goes to the sleep that ends its teardown, and
\* answers success when that sleep is over.
C8_DisconnectUnknown ==
  [][\A a \in Agents :
       /\ (DisconnectRequest(a) /\ clients[a] = 0) =>
            /\ UNCHANGED Maps
            /\ \E c \in Calls : /\ calls[c].kind = "free"
                                 /\ calls'[c].kind = "disconnect"
                                 /\ calls'[c].agent = a /\ calls'[c].pc = "sleep"
       /\ \A c \in Calls :
            (/\ calls[c].kind = "disconnect" /\ calls[c].agent = a
             /\ calls[c].sock = 0 /\ SleepDone(c)) =>
              /\ resp'.kind = "disconnect" /\ resp'.agent = a
              /\ resp'.status = 200 /\ resp'.result = "ok"]_vars

Destroyed(a) ==
  /\ clients[a] = 0 /\ clientStates[a] = "none" /\ qrCodes[a] = 0
  /\ qrTimeouts[a] = 0 /\ armed[a] = {} /\ ~auth[a]

TimerRunning(a) == \E c \in Calls : calls[c].kind = "timer" /\ calls[c].agent = a

\* C9: an init that answers with a pairing code has stored a non-empty
\* artifact, armed the timer and reports 180 seconds; and once the pairing
\* timer of the account has fired, the account is eventually destroyed (no
\* registry entry, state, artifact or timer) with no stored credentials.
C9_PairingExpires ==
  /\ [](resp.result = "qr" =>
         /\ resp.qr # 0 /\ qrCodes[resp.agent] = resp.qr
         /\ resp.timeout = 180
         /\ qrTimeouts[resp.agent] # 0 /\ armed[resp.agent] # {}
         /\ clients[resp.agent] # 0 /\ clientStates[resp.agent] = "connecting")
  /\ \A a \in Addressed : TimerRunning(a) ~> Destroyed(a)

C9_TimedOut ==
  /\ log = "timeout_cleanup"
  /\ Destroyed(1)
  /\ \A s \in Socks : socks[s].phase # "open"

\* C10: an admitted /init for an account with stored credentials does not
\* discard them: the socket it makes uses them and needs no pairing.
C10_InitKeepsCredentials ==
  [][\A a \in Agents :
       (InitRequest(a) /\ auth[a] /\ resp'.kind = "none") => auth'[a]]_vars

\* the accounts that no caller sends /init or /disconnect for in this run
Unaddressed == Agents \ (budget.initFor \cup budget.discFor)

\* C11: when the socket made by a reconnect attempt of an account that no
\* caller addresses has opened, is still open and its handler finishes, the
\* account has no reconnect counter, is in state 'open', is registered with
\* that socket, and its credentials are still stored.
C11_ReconnectSucceeds ==
  [][\A s \in Socks :
       (/\ socks[s].agent \in Unaddressed /\ socks[s].parent # 0
        /\ socks[s].phase = "open" /\ OpenNotified(s))
       => LET a == socks[s].agent IN
          /\ reconnectAttempts'[a] = 0 /\ clientStates'[a] = "open"
          /\ clients'[a] = s /\ auth'[a]]_vars

\* C12: a logged-out close of the registered socket of an open session removes
\* every record of the account and its stored credentials and schedules no
\* reconnect; and an /init for an account with no record and no stored
\* credentials starts a pairing flow: it goes on to make a socket without
\* credentials.
C12_TerminalLogout ==
  /\ [][\A s \in Socks : \A a \in Agents :
          (/\ Handles(s) /\ socks[s].agent = a /\ socks[s].phase = "open"
           /\ clients[a] = s /\ clientStates[a] = "open"
           /\ Spend("close") /\ Commit(OnClose(G, s, TRUE)))
          => /\ NoRecords(a)' /\ ~auth'[a]
             /\ socks'[s].closeJob \notin {"delay", "load", "wait"}]_vars
  /\ [][\A a \in Agents :
          (InitRequest(a) /\ NoRecords(a) /\ ~auth[a] /\ resp'.kind = "none")
          => \E c \in Calls : /\ calls[c].kind = "free"
                               /\ calls'[c].kind = "init" /\ calls'[c].agent = a
                               /\ calls'[c].pc = "load" /\ ~calls'[c].loaded
                               /\ ~auth'[a]]_vars

\* the open handler of the socket is still waiting for its notification
\* fetch when the logged-out close has removed everything
C12_LoggedOut ==
  /\ log = "logged_out"
  /\ NoRecords(1) /\ ~auth[1]
  /\ resp = NoResp /\ \A c \in Calls : calls[c].kind = "free"
  /\ \E s \in Socks :
       /\ socks[s].agent = 1 /\ socks[s].phase = "dead" /\ socks[s].openJob
       /\ socks[s].closeJob = "none" /\ ~socks[s].qrJob
       /\ \A t \in Socks \ {s} : socks[t].phase = "unused"

\* the account has no session: no registry entry, no state, no live socket,
\* no reconnect waiting and no task working on it
Stopped(a) ==
  /\ clients[a] = 0 /\ clientStates[a] = "none" /\ reconnectAttempts[a] = 0
  /\ \A s \in Socks : socks[s].agent = a =>
        /\ ~Live(socks[s].phase)
        /\ socks[s].closeJob \notin {"delay", "load", "wait"}
  /\ \A c \in Calls : calls[c].agent # a

\* C13: the recoverable close that takes the counter past the maximum removes
\* the session, schedules no reconnect and keeps the stored credentials; and
\* the credentials of an account without a session stay stored in every step
\* that is not a /disconnect or an /init for it.
C13_MaxKeepsCredentials ==
  /\ [][\A s \in Socks : \A a \in Agents :
          (/\ Handles(s) /\ socks[s].agent = a /\ Live(socks[s].phase)
           /\ reconnectAttempts[a] = MAX_RECONNECT_ATTEMPTS
           /\ Spend("close") /\ Commit(OnClose(G, s, FALSE)))
          => /\ clients'[a] = 0 /\ clientStates'[a] = "none"
             /\ socks'[s].closeJob \notin {"delay", "load", "wait"}
             /\ auth'[a] = auth[a]]_vars
  /\ [][\A a \in Agents :
          (Stopped(a) /\ auth[a] /\ ~DisconnectRequest(a) /\ ~InitRequest(a))
          => auth'[a]]_vars

\* C14: when a /disconnect of an account has deleted the records and is in
\* the closing sleep of its teardown, nothing else works on the account and
\* the account has no registry entry and no state, a reconnect of that
\* account that was waiting in its delay and then reaches makeWASocket makes
\* no socket, and the account keeps having no registry entry and no state.
C14_NoReconnectAfterDisconnect ==
  [][\A s \in Socks : \A a \in Agents :
       (/\ \E d \in Calls : /\ calls[d].kind = "disconnect" /\ calls[d].agent = a
                             /\ calls[d].pc = "sleep"
        /\ \A c \in Calls : calls[c].agent = a =>
                               calls[c].kind \in {"free", "disconnect"}
        /\ clients[a] = 0 /\ clientStates[a] = "none"
        /\ socks[s].agent = a /\ ReconnectCreate(s))
       => /\ LiveSocks(a)' \subseteq LiveSocks(a)
          /\ clients'[a] = 0 /\ clientStates'[a] = "none"]_vars

\* C15: when /init answers with the error of a connection that closed before
\* the call was resolved, the account has no registry entry, no state, no
\* artifact, no timer and no live socket.
C15_FailedConnectTornDown ==
  (resp.kind = "init" /\ resp.result = "error" /\ resp.message = "closed")
  => LET a == resp.agent IN
     /\ clients[a] = 0 /\ clientStates[a] = "none" /\ qrCodes[a] = 0
     /\ qrTimeouts[a] = 0 /\ armed[a] = {}
     /\ LiveSocks(a) = {}

\* C16: whenever a teardown of an account finishes its work, alone or while
\* other teardowns of the account are running (a /disconnect, the cleanup
\* interval, the timer callback, the max-reconnect branch), the account has
\* no registry entry, no state, no artifact and no stored credentials, and
\* the caller goes on without error: /disconnect and the cleanup interval
\* reach the sleep that ends the teardown, and /disconnect answers success
\* when its sleep is over.
C16_TeardownReentrant ==
  [][\A c \in Calls : \A a \in Agents :
       /\ (calls[c].agent = a /\ LogoutDone(c))
          => /\ clients'[a] = 0 /\ clientStates'[a] = "none" /\ qrCodes'[a] = 0
             /\ ~auth'[a]
             /\ calls[c].kind \in {"disconnect", "sweep"} =>
                   calls'[c].kind = calls[c].kind /\ calls'[c].pc = "sleep"
       /\ (calls[c].agent = a /\ calls[c].kind = "disconnect" /\ SleepDone(c))
          => /\ resp'.kind = "disconnect" /\ resp'.agent = a
             /\ resp'.status = 200 /\ calls'[c].kind = "free"]_vars

\* /disconnect has answered while the cleanup interval is still in its own
\* teardown of the same account
C16_Overlap ==
  /\ resp.kind = "disconnect" /\ resp.status = 200
  /\ \E d \in Calls : /\ calls[d].kind = "sweep" /\ calls[d].agent = resp.agent
                        /\ calls[d].pc = "logout"
  /\ clients[resp.agent] = 0 /\ clientStates[resp.agent] = "none"
  /\ ~auth[resp.agent]

\* the records of account a other than its credentials
RecordsOf(a) == <<clients[a], qrCodes[a], qrTimeouts[a], armed[a], clientStates[a],
                  reconnectAttempts[a]>>

\* the registered accounts that a run of the cleanup interval has still to
\* visit when its iterator stands at position k, in the order of the visits
ToVisit(k) == SubSeq(clientOrder, k + 1, Len(clientOrder))

\* what a run may do when it goes on from position k: it passes the accounts
\* whose state is 'open' or 'connecting' and begins destroyClient (the
\* teardown of /disconnect: timer cleared, logout of the registered socket)
\* for the first account in any other state, or it ends having passed all
SweepStep(k) ==
  LET rest == ToVisit(k)
      due == {i \in 1..Len(rest) : clientStates[rest[i]] \notin {"open", "connecting"}}
  IN IF due = {}
     THEN /\ UNCHANGED Maps
          /\ \A c \in Calls : calls'[c].kind # "sweep"
     ELSE LET i == CHOOSE j \in due : \A l \in due : j <= l
              a == rest[i]
          IN /\ \E c \in Calls : /\ calls'[c].kind = "sweep" /\ calls'[c].agent = a
                                   /\ calls'[c].pc = "logout"
                                   /\ calls'[c].sock = clients[a]
                                   /\ calls'[c].cursor = k + i
             /\ qrTimeouts'[a] = 0 /\ armed'[a] = armed[a] \ {qrTimeouts[a]}
             /\ \A b \in Agents \ {a} : RecordsOf(b)' = RecordsOf(b)
             /\ UNCHANGED <<auth, clients, clientStates, qrCodes>>

\* C17: a run of the cleanup interval, when it starts and each time it goes on
\* after a teardown, leaves the registered accounts in state 'open' or
\* 'connecting' unchanged and tears down, with destroyClient, the next
\* registered account in any other state; it ends only when no registered
\* account is left to visit.
C17_Sweeper ==
  [][/\ SweepStart => SweepStep(0)
     /\ \A c \in Calls :
          (calls[c].kind = "sweep" /\ SleepDone(c)) => SweepStep(calls[c].cursor)]_vars

\* the run has passed four open sessions and is tearing down the fifth, whose
\* socket had closed
C17_Swept ==
  \E c \in Calls :
    /\ calls[c].kind = "sweep" /\ calls[c].pc = "logout"
    /\ calls[c].cursor = MAX_CONCURRENT_SESSIONS
    /\ calls[c].agent = MAX_CONCURRENT_SESSIONS
    /\ clientStates[MAX_CONCURRENT_SESSIONS] = "close"
    /\ \A a \in 1..(MAX_CONCURRENT_SESSIONS - 1) :
         clients[a] # 0 /\ clientStates[a] = "open"

\* a destroyClient of account a has begun and has not yet deleted the records
Destroying(a) == \E c \in Calls : calls[c].agent = a /\ calls[c].pc = "logout"

\* C18: an /init that arrives while a destroyClient of the same account is
\* between its beginning and its deletes does not answer that the account is
\* connected, and the registry entry and the state it reads are either both
\* still there or both gone.
C18_AtomicDestruction ==
  [][\A a \in Agents :
       (InitRequest(a) /\ Destroying(a))
       => /\ resp'.result \notin {"already_connected", "connected"}
          /\ \/ NoRecords(a)
             \/ clients[a] # 0 /\ clientStates[a] # "none"]_vars

\* no teardown of account a is under way
Undisturbed(a) == \A c \in Calls : calls[c].agent # a

\* C19: a recoverable close that leaves the counter within the ceiling starts
\* the delay of a further attempt, the attempt is made when the delay is over
\* (a socket slot of the model permitting), and when an attempt's socket has
\* opened and its promise resolves, the account is in state 'open' with that
\* socket in the registry.
C19_RetryUntilOpen ==
  /\ [][\A s \in Socks : \A a \in Agents :
          /\ (/\ socks[s].agent = a /\ SockClose(s) /\ log' # "logged_out"
              /\ reconnectAttempts[a] < MAX_RECONNECT_ATTEMPTS)
             => /\ socks'[s].closeJob = "delay"
                /\ reconnectAttempts'[a] = reconnectAttempts[a] + 1
          /\ (/\ socks[s].agent = a /\ socks[s].parent # 0 /\ OpenNotified(s)
              /\ socks[s].phase = "open" /\ clientStates[a] = "open"
              /\ Undisturbed(a))
             => clients'[a] = s /\ clientStates'[a] = "open"]_vars
  /\ \A s \in Socks :
       (socks[s].closeJob \in {"delay", "load"})
         ~> (socks[s].closeJob \notin {"delay", "load"} \/ ~HasFreeSock)

\* how often the handler started a call (download, upload) for message i
CallsFor(seq, i) == Cardinality({k \in DOMAIN seq : seq[k] = i})

\* the records of message i that were posted to the webhook
PostsOf(i) == {k \in DOMAIN relay.posts : relay.posts[k].index = i}

\* message i of the event is an inbound media-class message with a chat
InboundMedia(i) ==
  LET m == relay.messages[i] IN
  /\ relay.type = "notify"
  /\ ~m.fromMe
  /\ m.remoteJid # "none"
  /\ m.content \in {"image", "video", "audio", "ptt", "document", "sticker"}

\* message i was relayed once, with its subtype, and with the asset reference
\* exactly if the storage took the asset
RelayedOnce(i) ==
  LET m == relay.messages[i] IN
  /\ Cardinality(PostsOf(i)) = 1
  /\ \A k \in PostsOf(i) :
       /\ relay.posts[k].has_media
       /\ relay.posts[k].media_type = m.content
       /\ relay.posts[k].media_url <=> i \in relay.stored
  /\ CallsFor(relay.downloads, i) = 1

\* no download and no upload is started for a self-sent or non-media message
NoRetrieval ==
  \A i \in DOMAIN relay.messages :
    LET m == relay.messages[i] IN
    (m.fromMe \/ m.content \in {"none", "reply", "text"})
    => /\ CallsFor(relay.downloads, i) = 0
       /\ CallsFor(relay.uploads, i) = 0
       /\ \A k \in PostsOf(i) : ~relay.posts[k].media_url

\* C20 as stated: once the handler of an open session has ended, every
\* inbound media-class message of the event has been relayed exactly once with
\* its subtype, with the asset reference if and only if the upload succeeded;
\* nothing is downloaded or uploaded for self-sent and non-media messages.
C20_MediaRelayed ==
  /\ NoRetrieval
  /\ (relay.pc = "done" /\ OpenSessions # {})
     => \A i \in DOMAIN relay.messages : InboundMedia(i) => RelayedOnce(i)

\* C20 amended: the same for the inbound media-class messages whose chat is
\* not the status broadcast; those of the status broadcast are not relayed.
C20_MediaRelayedUnlessStatus ==
  /\ NoRetrieval
  /\ (relay.pc = "done" /\ OpenSessions # {})
     => \A i \in DOMAIN relay.messages :
          InboundMedia(i)
          => IF relay.messages[i].remoteJid = "status@broadcast"
             THEN PostsOf(i) = {} /\ CallsFor(relay.downloads, i) = 0
             ELSE RelayedOnce(i)

\* the handler has ended after an upload that failed, and the message was relayed
C20_RelayedWithoutAsset ==
  /\ relay.pc = "done" /\ OpenSessions # {}
  /\ \E i \in DOMAIN relay.messages :
       /\ InboundMedia(i)
       /\ CallsFor(relay.uploads, i) = 1 /\ i \notin relay.stored
       /\ PostsOf(i) # {}
  /\ \E i \in DOMAIN relay.messages : i \in relay.stored

\* the /init step for account a went past the limit check: a task of it
\* exists afterwards (in the teardown of the old session or in initializeClient)
Admitted(a) ==
  \E c \in Calls : /\ calls[c].kind = "free"
                    /\ calls'[c].kind = "init" /\ calls'[c].agent = a

\* C21: an /init is admitted only when fewer than MAX_CONCURRENT_SESSIONS
\* other accounts are open, also when the account has a registry entry that
\* is not open; with fewer open sessions such an account is not rejected but
\* its old session is torn down.
C21_AdmissionCountsOthers ==
  [][\A a \in Agents :
       InitRequest(a) =>
         /\ Admitted(a)
            => Cardinality(OpenSessions \ {a}) < MAX_CONCURRENT_SESSIONS
         /\ (/\ clients[a] # 0 /\ clientStates[a] # "open"
             /\ Cardinality(OpenSessions \ {a}) < MAX_CONCURRENT_SESSIONS)
            => Admitted(a) /\ resp' = NoResp]_vars

\* the /init call c awaits the promise of socket s
Awaits(c, s) == calls[c].kind = "init" /\ calls[c].pc = "wait" /\ socks[s].wcall = c

\* the pending call c is continued by this step: it answers or goes on to
\* the teardown after a failure
Completes(c) == calls[c].pc = "wait" /\ calls'[c].pc # "wait"

\* C22: a waiting /init call is awaited on exactly one socket; the first
\* rendered (or failed) code, the first open and a terminal close of that
\* socket continue it; a socket whose promise is settled continues no /init
\* call and sends no response, and a later code of it only replaces the
\* stored code and the timer.
C22_CompletedOnce ==
  [][/\ \A c \in Calls :
          calls[c].pc = "wait" => Cardinality({s \in Socks : socks[s].wcall = c}) = 1
     /\ \A s \in Socks : socks[s].qrResolved => socks[s].wcall = 0
     /\ \A s \in Socks : \A c \in Calls :
          (/\ Awaits(c, s)
           /\ \/ QrRendered(s) \/ QrRenderFailed(s) \/ OpenNotified(s)
              \/ SockClose(s) /\ log' \in {"logged_out", "max_reconnect"})
          => Completes(c) /\ socks'[s].wcall # c
     /\ \A s \in Socks :
          (/\ socks[s].qrResolved
           /\ \/ QrRendered(s) \/ QrRenderFailed(s) \/ OpenNotified(s) \/ SockClose(s))
          => /\ \A c \in Calls : calls[c].kind = "init" => calls'[c] = calls[c]
             /\ resp' = NoResp
     /\ \A s \in Socks : \A a \in Agents :
          (socks[s].qrResolved /\ socks[s].agent = a /\ QrRendered(s))
          => /\ qrCodes'[a] = s
             /\ qrTimeouts'[a] # 0 /\ qrTimeouts'[a] \in armed'[a]
             /\ armed'[a] \ {qrTimeouts'[a]} = armed[a] \ {qrTimeouts[a]}]_vars

\* a further code of a socket is being rendered after its /init was answered
C22_LaterCode ==
  \E s \in Socks :
    /\ socks[s].qrResolved /\ socks[s].qrJob /\ socks[s].phase = "qr"
    /\ socks[s].parent = 0 /\ clients[socks[s].agent] = s
    /\ \A c \in Calls : calls[c].kind = "free"

\* C23: when the open event of a socket resolves the /init call that awaits
\* it (the socket was made with the stored credentials and showed no code),
\* the call answers 200 with the
\* connected result of that socket, and the account is then open with the
\* socket in the registry.
C23_ConnectedWithoutPairing ==
  [][\A s \in Socks : \A c \in Calls : \A a \in Agents :
       (/\ Awaits(c, s) /\ calls[c].loaded /\ ~socks[s].qrJob
        /\ socks[s].agent = a /\ OpenNotified(s))
       => /\ resp'.kind = "init" /\ resp'.agent = a /\ resp'.status = 200
          /\ resp'.result = "connected" /\ resp'.sock = s
          /\ clientStates'[a] = "open" /\ clients'[a] = s]_vars

\* the open handler of the registered socket of account a has run to its end
OpenCompleted(a) ==
  /\ clients[a] # 0 /\ clientStates[a] = "open"
  /\ socks[clients[a]].phase = "open" /\ ~socks[clients[a]].openJob

\* C24: an account whose open transition has completed has no pairing timer
\* (none stored, none that can still fire), no stored code and a reconnect
\* counter of zero, for as long as it is open.
C24_OpenIsClean ==
  \A a \in Agents :
    OpenCompleted(a)
    => /\ qrTimeouts[a] = 0 /\ armed[a] = {}
       /\ qrCodes[a] = 0
       /\ reconnectAttempts[a] = 0

\* this step ends a destruction of account a: destroyClient, called by
\* /disconnect, the timer, the sweeper or /init, deletes the records and starts
\* its sleep, after the logout it awaited or, with no registry entry, in the
\* callback that called it; a close takes the logged-out or the max-attempts
\* branch; or a reconnect attempt fails and the close handler that awaited it
\* deletes the registry entry
EndsDestruction(a) ==
  \/ \E c \in Calls : /\ calls[c].pc # "sleep"
                       /\ calls'[c].pc = "sleep" /\ calls'[c].agent = a
  \/ \E s \in Socks : /\ socks[s].agent = a /\ SockClose(s)
                       /\ log' \in {"logged_out", "max_reconnect"}
  \/ \E s \in Socks : /\ socks[s].agent = a /\ socks[s].closeJob = "wait"
                       /\ socks'[s].closeJob # "wait"
                       /\ clients'[a] = 0 /\ clientStates'[a] = "none"

\* C25: an account never has more than one timer that can fire, and it is
\* the stored one; a step that arms a timer cancels the stored one; and every
\* step that ends a destruction of the account leaves it no timer that can fire.
C25_OneTimer ==
  [][\A a \in Agents :
       /\ Cardinality(armed[a]) <= 1 /\ armed[a] \subseteq {qrTimeouts[a]}
       /\ Cardinality(armed'[a]) <= 1
       /\ (armed'[a] \ armed[a] # {}) => armed[a] \cap armed'[a] = {}
       /\ EndsDestruction(a) => armed'[a] = {}]_vars

\* C26: at most MAX_CONCURRENT_SESSIONS accounts are in state 'open'.
C26_OpenWithinLimit ==
  Cardinality({a \in Agents : clientStates[a] = "open"}) <= MAX_CONCURRENT_SESSIONS

\* C27: an account has at most one live socket, and a live socket whose
\* promise is settled (its /init or reconnect is over) is the one in the
\* registry entry of its account.
C27_LiveIsRegistered ==
  \A a \in Agents :
    /\ Cardinality(LiveSocks(a)) <= 1
    /\ \A s \in LiveSocks(a) : socks[s].qrResolved => clients[a] = s

\* socket s of account a has been superseded and still delivers events: its
\* /init or reconnect is over, and the registry entry of the account holds
\* another socket, which is live
Superseded(s, a) ==
  /\ socks[s].agent = a /\ Live(socks[s].phase)
  /\ socks[s].qrResolved /\ socks[s].parent = 0
  /\ clients[a] # 0 /\ clients[a] # s
  /\ Live(socks[clients[a]].phase)

\* a step of the connection.update handler of socket s for one of its events
EventOf(s) ==
  \/ SockQr(s) \/ QrRendered(s) \/ QrRenderFailed(s) \/ SockPaired(s)
  \/ SockOpen(s) \/ OpenNotified(s) \/ SockClose(s)

\* C28: an event of a superseded socket changes neither the state, the
\* registry entry, the stored code, the timer, the reconnect counter nor the
\* stored credentials of its account.
C28_StaleEventsIgnored ==
  [][\A s \in Socks : \A a \in Agents :
       (Superseded(s, a) /\ EventOf(s))
       => /\ clientStates'[a] = clientStates[a]
          /\ clients'[a] = clients[a]
          /\ qrCodes'[a] = qrCodes[a]
          /\ qrTimeouts'[a] = qrTimeouts[a] /\ armed'[a] = armed[a]
          /\ reconnectAttempts'[a] = reconnectAttempts[a]
          /\ auth'[a] = auth[a]]_vars

\* the close handler of a socket of account a is in its reconnect delay, in
\* the load of the credentials or awaits the reconnect attempt
Reconnecting(a) ==
  \E s \in Socks : socks[s].agent = a /\ socks[s].closeJob \in {"delay", "load", "wait"}

\* C29: while an account that no caller addresses is reconnecting after a
\* recoverable close, no step starts a teardown of it and its stored
\* credentials stay stored.
C29_ReconnectKeepsCredentials ==
  [][\A a \in Agents :
       (a \in Unaddressed /\ Reconnecting(a) /\ Undisturbed(a) /\ auth[a])
       => /\ auth'[a]
          /\ \A c \in Calls : calls'[c].agent # a]_vars

====
